---- MODULE Spec2Model ----
(***************************************************************************)
(* Model of convex_hull_python.py: the Graham-scan convex hull of class    *)
(* ConvexHull (compute_hull, _ensure_clockwise, get_hull_segments).        *)
(*                                                                         *)
(* Points are pairs <<x, y>> on the integer grid 0..MaxCoord.  On that     *)
(* grid every product and sum of the source is exact in double precision,  *)
(* so cross_product and the shoelace sum are modelled by integer           *)
(* arithmetic.  numpy.arctan2 and numpy.sqrt are modelled by the order     *)
(* they induce on the sort key (see polar_angle_distance and KeyLess).     *)
(***************************************************************************)
EXTENDS Integers, Sequences, FiniteSets

\* Bounds of the model.
MaxCoord == 2
MaxPts == 5

\* Line 38: "if n < 3".
MinPoints == 3

Coords == 0..MaxCoord
Point == Coords \X Coords

VARIABLES points, pc, hull, segments, mode, ref

vars == <<points, pc, hull, segments, mode, ref>>

(***************************************************************************)
(* Pure helpers                                                            *)
(***************************************************************************)

\* cross_product(O, A, B), line 14.
cross_product(O, A, B) ==
    (A[1] - O[1]) * (B[2] - O[2]) - (A[2] - O[2]) * (B[1] - O[1])

\* polar_angle_distance(point, reference), lines 19-22.  The angle
\* arctan2(dy, dx) is carried as the direction <<dx, dy>> it is computed
\* from, the distance sqrt(dx*dx + dy*dy) as its square; both are compared
\* by KeyLess in the order of the floating-point values.
polar_angle_distance(point, reference) ==
    LET dx == point[1] - reference[1]
        dy == point[2] - reference[2]
    IN  [angle |-> <<dx, dy>>, distance |-> dx * dx + dy * dy]

\* The range of arctan2 split in four: (-pi, 0), {0}, (0, pi), {pi}.
\* arctan2(0, 0) is 0.
AngleClass(a) ==
    IF a[2] < 0 THEN 0
    ELSE IF a[2] > 0 THEN 2
    ELSE IF a[1] >= 0 THEN 1
    ELSE 3

\* arctan2 of direction a is smaller than arctan2 of direction b.
AngleLess(a, b) ==
    \/ AngleClass(a) < AngleClass(b)
    \/ /\ AngleClass(a) = AngleClass(b)
       /\ AngleClass(a) \in {0, 2}
       /\ a[1] * b[2] - a[2] * b[1] > 0

\* KeyLess with the distance tie-break left out (sort by angle only).
KeyLess_angle_only(k1, k2) == AngleLess(k1.angle, k2.angle)

\* Tuple comparison of the sort key (angle, distance), line 53.
KeyLess(k1, k2) ==
    \/ AngleLess(k1.angle, k2.angle)
    \/ /\ ~AngleLess(k2.angle, k1.angle)
       /\ k1.distance < k2.distance

\* LexLess with the two lexsort keys exchanged (x first, then y).
LexLess_keys_swapped(p, q) == p[1] < q[1] \/ (p[1] = q[1] /\ p[2] < q[2])

\* np.lexsort((points[:, 0], points[:, 1]))[0], line 42: the first index of
\* a point that is smallest by y, then by x (the sort is stable).
LexLess(p, q) == p[2] < q[2] \/ (p[2] = q[2] /\ p[1] < q[1])

StartIdx(pts) ==
    CHOOSE i \in 1..Len(pts) :
        /\ \A j \in 1..Len(pts) : ~LexLess(pts[j], pts[i])
        /\ \A j \in 1..(i - 1) : LexLess(pts[i], pts[j])

\* np.delete(points, start_idx, axis=0), line 46.
Delete(pts, i) ==
    [k \in 1..(Len(pts) - 1) |-> IF k < i THEN pts[k] ELSE pts[k + 1]]

\* sorted(range(len(polar_data)), key=...), lines 52-53: a stable sort, an
\* index goes behind every index whose key is not greater.
RECURSIVE InsertIdx(_, _, _)
InsertIdx(sorted, i, keys) ==
    IF sorted = <<>> THEN <<i>>
    ELSE IF KeyLess(keys[i], keys[Head(sorted)])
         THEN <<i>> \o sorted
         ELSE <<Head(sorted)>> \o InsertIdx(Tail(sorted), i, keys)

RECURSIVE SortedIndicesUpTo(_, _)
SortedIndicesUpTo(keys, n) ==
    IF n = 0 THEN <<>>
    ELSE InsertIdx(SortedIndicesUpTo(keys, n - 1), n, keys)

SortedIndices(keys) == SortedIndicesUpTo(keys, Len(keys))

\* Lines 43-55: the anchor followed by the other points in key order.
SortedPoints(pts) ==
    LET start_idx == StartIdx(pts)
        start_point == pts[start_idx]
        other_points == Delete(pts, start_idx)
        polar_data == [k \in 1..Len(other_points) |->
                          polar_angle_distance(other_points[k], start_point)]
        sorted_indices == SortedIndices(polar_data)
    IN  <<start_point>> \o
        [k \in 1..Len(sorted_indices) |-> other_points[sorted_indices[k]]]

\* PopWhile with a strict turn test (< 0 for <= 0).
RECURSIVE PopWhile_strict(_, _)
PopWhile_strict(stack, point) ==
    IF /\ Len(stack) > 1
       /\ cross_product(stack[Len(stack) - 1], stack[Len(stack)], point) < 0
    THEN PopWhile_strict(SubSeq(stack, 1, Len(stack) - 1), point)
    ELSE stack

\* PopWhile with "if" for "while": at most one pop per point.
PopWhile_once(stack, point) ==
    IF /\ Len(stack) > 1
       /\ cross_product(stack[Len(stack) - 1], stack[Len(stack)], point) <= 0
    THEN SubSeq(stack, 1, Len(stack) - 1)
    ELSE stack

\* The while loop of lines 61-63.
RECURSIVE PopWhile(_, _)
PopWhile(stack, point) ==
    IF /\ Len(stack) > 1
       /\ cross_product(stack[Len(stack) - 1], stack[Len(stack)], point) <= 0
    THEN PopWhile(SubSeq(stack, 1, Len(stack) - 1), point)
    ELSE stack

\* The for loop of lines 58-64.
RECURSIVE GrahamScan(_, _)
GrahamScan(stack, rest) ==
    IF rest = <<>> THEN stack
    ELSE GrahamScan(Append(PopWhile(stack, Head(rest)), Head(rest)), Tail(rest))

\* The shoelace sum of lines 79-82.
RECURSIVE SignedAreaFrom(_, _)
SignedAreaFrom(h, i) ==
    IF i > Len(h) THEN 0
    ELSE LET j == (i % Len(h)) + 1
         IN  (h[j][1] - h[i][1]) * (h[j][2] + h[i][2]) + SignedAreaFrom(h, i + 1)

SignedArea(h) == SignedAreaFrom(h, 1)

Reverse(h) == [k \in 1..Len(h) |-> h[Len(h) + 1 - k]]

\* _ensure_clockwise with the area test turned round (< 0 for > 0).
ensure_clockwise_flipped(h) ==
    IF Len(h) < 3 THEN h
    ELSE IF SignedArea(h) < 0 THEN Reverse(h) ELSE h

\* _ensure_clockwise(hull), lines 72-88.
ensure_clockwise(h) ==
    IF Len(h) < 3 THEN h
    ELSE IF SignedArea(h) > 0 THEN Reverse(h) ELSE h

\* The value compute_hull returns for n >= 3 points, lines 41-69.
compute_hull(pts) == ensure_clockwise(GrahamScan(<<>>, SortedPoints(pts)))

\* get_hull_segments without the closing segment (range(n - 1)).
get_hull_segments_open(h) ==
    [i \in 1..(Len(h) - 1) |-> <<h[i], h[i + 1]>>]

\* get_hull_segments(hull), lines 98-105.
get_hull_segments(h) ==
    [i \in 1..Len(h) |-> <<h[i], h[(i % Len(h)) + 1]>>]

(***************************************************************************)
(* The caller: it supplies an input, calls compute_hull, calls             *)
(* get_hull_segments on the result, and may call compute_hull again on the *)
(* same points in another order or on the hull it got.                     *)
(***************************************************************************)

RECURSIVE SeqsUpTo(_)
SeqsUpTo(n) ==
    IF n = 0 THEN {<<>>}
    ELSE LET S == SeqsUpTo(n - 1)
         IN  S \cup {Append(s, p) : s \in {t \in S : Len(t) = n - 1}, p \in Point}

Init ==
    /\ points \in SeqsUpTo(MaxPts)
    /\ pc = "idle"
    /\ hull = <<>>
    /\ segments = <<>>
    /\ mode = "first"
    /\ ref = <<>>

\* ComputeHull with the size check off by one (n < 2).
ComputeHull_two ==
    /\ pc = "idle"
    /\ IF Len(points) < MinPoints - 1
       THEN /\ pc' = "error"
            /\ UNCHANGED hull
       ELSE /\ pc' = "done"
            /\ hull' = compute_hull(points)
    /\ UNCHANGED <<points, segments, mode, ref>>

\* compute_hull(points), lines 35-69: raises ValueError or returns the hull.
ComputeHull ==
    /\ pc = "idle"
    /\ IF Len(points) < MinPoints
       THEN /\ pc' = "error"
            /\ UNCHANGED hull
       ELSE /\ pc' = "done"
            /\ hull' = compute_hull(points)
    /\ UNCHANGED <<points, segments, mode, ref>>

\* get_hull_segments(hull) on the hull compute_hull returned (main, line 147).
GetHullSegments ==
    /\ pc = "done"
    /\ segments' = get_hull_segments(hull)
    /\ pc' = "segments"
    /\ UNCHANGED <<points, hull, mode, ref>>

Swap(s, i, j) ==
    [k \in 1..Len(s) |-> IF k = i THEN s[j] ELSE IF k = j THEN s[i] ELSE s[k]]

\* The caller supplies the same points with two of them exchanged.
Permute ==
    /\ pc \in {"done", "segments"}
    /\ \E i, j \in 1..Len(points) :
          /\ i < j
          /\ points' = Swap(points, i, j)
    /\ ref' = IF mode = "permuted" THEN ref ELSE hull
    /\ mode' = "permuted"
    /\ pc' = "idle"
    /\ UNCHANGED <<hull, segments>>

\* The caller feeds the returned hull back into compute_hull.
Refeed ==
    /\ pc \in {"done", "segments"}
    /\ Len(hull) >= 3
    /\ points' = hull
    /\ ref' = hull
    /\ mode' = "refed"
    /\ pc' = "idle"
    /\ UNCHANGED <<hull, segments>>

Next == ComputeHull \/ GetHullSegments \/ Permute \/ Refeed

Spec == Init /\ [][Next]_vars

(***************************************************************************)
(* Properties                                                              *)
(***************************************************************************)

\* compute_hull has returned a hull for the current points.
Returned == pc \in {"done", "segments"}

\* Index of the cyclic successor of vertex i in a sequence of n vertices.
Succ(i, n) == (i % n) + 1

PointsOf(s) == {s[i] : i \in 1..Len(s)}

AllCollinear(pts) ==
    \A a, b, c \in PointsOf(pts) : cross_product(a, b, c) = 0

\* p lies on the closed segment from a to b.
OnSegment(p, a, b) ==
    /\ cross_product(a, b, p) = 0
    /\ (a[1] <= p[1] /\ p[1] <= b[1]) \/ (b[1] <= p[1] /\ p[1] <= a[1])
    /\ (a[2] <= p[2] /\ p[2] <= b[2]) \/ (b[2] <= p[2] /\ p[2] <= a[2])

\* C1: for an input of at least 3 points that are not all collinear the
\* returned hull is clockwise: every cyclically consecutive triple of hull
\* vertices has a negative cross product.
C1_Clockwise ==
    (Returned /\ ~AllCollinear(points)) =>
        \A i \in 1..Len(hull) :
            cross_product(hull[i], hull[Succ(i, Len(hull))],
                          hull[Succ(Succ(i, Len(hull)), Len(hull))]) < 0

\* C2: every input point lies on or inside the returned hull: for a hull of
\* at least 3 vertices the cross products of all edges with all input points
\* have the same non-strict sign, for a 2-vertex hull every input point lies
\* on the closed segment between the two vertices.
C2_Containment ==
    Returned =>
        IF Len(hull) >= 3
        THEN \/ \A i \in 1..Len(hull) : \A p \in PointsOf(points) :
                   cross_product(hull[i], hull[Succ(i, Len(hull))], p) >= 0
             \/ \A i \in 1..Len(hull) : \A p \in PointsOf(points) :
                   cross_product(hull[i], hull[Succ(i, Len(hull))], p) <= 0
        ELSE /\ Len(hull) = 2
             /\ \A p \in PointsOf(points) : OnSegment(p, hull[1], hull[2])

\* A hull of at least 3 vertices was returned and an input point lies
\* strictly inside it.
C2_Witness ==
    /\ Returned
    /\ Len(hull) >= 3
    /\ \E p \in PointsOf(points) : \A i \in 1..Len(hull) :
          cross_product(hull[i], hull[Succ(i, Len(hull))], p) > 0

\* C3: compute_hull raises the invalid-input error, and returns no hull,
\* exactly when fewer than 3 points are supplied; with 3 or more points it
\* raises nothing and returns a hull.
C3_ErrorIffTooFew ==
    /\ (pc # "idle") => ((pc = "error") <=> (Len(points) < 3))
    /\ (pc = "error") => (hull = <<>>)
    /\ Returned => (Len(hull) >= 1)

\* The call failed on an input of 2 points.
C3_Witness == pc = "error" /\ Len(points) = 2 /\ hull = <<>>

\* C4: idempotence: feeding a returned hull of at least 3 vertices back into
\* compute_hull returns the same vertices in the same order.
C4_Idempotent ==
    (pc = "done" /\ mode = "refed") => (hull = ref)

\* A hull of at least 3 vertices was fed back and the call has returned.
C4_Witness ==
    /\ pc = "done"
    /\ mode = "refed"
    /\ Len(ref) >= 3
    /\ points = ref
    /\ hull = ref

\* C5: winding invariant: the shoelace sum of a returned hull of at least 3
\* vertices is <= 0.
C5_ShoelaceNonPositive ==
    (Returned /\ Len(hull) >= 3) => (SignedArea(hull) <= 0)

\* A hull of at least 3 vertices with a negative shoelace sum was returned.
C5_Witness == Returned /\ Len(hull) >= 3 /\ SignedArea(hull) < 0

\* C6: segment closure: get_hull_segments returns exactly n segments for a
\* hull of n >= 2 vertices, segment i joins vertex i to vertex (i+1) mod n,
\* and the end of segment i is the start of segment (i+1) mod n.
C6_SegmentClosure ==
    (pc = "segments" /\ Len(hull) >= 2) =>
        /\ Len(segments) = Len(hull)
        /\ \A i \in 1..Len(hull) :
              /\ segments[i] = <<hull[i], hull[Succ(i, Len(hull))]>>
              /\ segments[i][2] = segments[Succ(i, Len(hull))][1]

\* The segments of a hull of at least 3 vertices were emitted.
C6_Witness ==
    /\ pc = "segments"
    /\ Len(hull) >= 3
    /\ Len(segments) = Len(hull)
    /\ segments[Len(segments)][2] = hull[1]

\* C7: the returned hull has fewer than 3 vertices exactly when all input
\* points are collinear.
C7_DegenerateIffCollinear ==
    Returned => ((Len(hull) < 3) <=> AllCollinear(points))

\* Three or more collinear, not all coincident points gave a 2-vertex hull.
C7_Witness ==
    /\ Returned
    /\ AllCollinear(points)
    /\ Cardinality(PointsOf(points)) >= 3
    /\ Len(hull) = 2

\* C8: only extreme points are kept: in a returned hull of at least 3
\* vertices no three cyclically consecutive vertices are collinear, no
\* vertex is reported twice and no vertex lies on the segment between two
\* other vertices.
C8_OnlyExtremePoints ==
    (Returned /\ Len(hull) >= 3) =>
        /\ \A i \in 1..Len(hull) :
              cross_product(hull[i], hull[Succ(i, Len(hull))],
                            hull[Succ(Succ(i, Len(hull)), Len(hull))]) # 0
        /\ \A i, j \in 1..Len(hull) : (i # j) => (hull[i] # hull[j])
        /\ \A i, j, k \in 1..Len(hull) :
              (i # j /\ i # k /\ j # k) => ~OnSegment(hull[k], hull[i], hull[j])

\* An input point lies on a hull edge strictly between its end points and is
\* no hull vertex.
C8_Witness ==
    /\ Returned
    /\ Len(hull) >= 3
    /\ \E p \in PointsOf(points) : \E i \in 1..Len(hull) :
          /\ OnSegment(p, hull[i], hull[Succ(i, Len(hull))])
          /\ p \notin PointsOf(hull)

\* C9: the first vertex of the returned hull is the anchor: the input point
\* with the smallest y and, among those, the smallest x.
C9_AnchorFirst ==
    Returned =>
        /\ hull[1] \in PointsOf(points)
        /\ \A p \in PointsOf(points) :
              \/ hull[1][2] < p[2]
              \/ (hull[1][2] = p[2] /\ hull[1][1] <= p[1])

\* A hull of at least 3 vertices was returned for an input whose first point
\* is not the anchor.
C9_Witness ==
    /\ Returned
    /\ Len(hull) >= 3
    /\ points[1] # hull[1]
    /\ \A p \in PointsOf(points) :
          \/ hull[1][2] < p[2]
          \/ (hull[1][2] = p[2] /\ hull[1][1] <= p[1])

\* C10: input-order independence: compute_hull on the same points in another
\* order returns the identical vertex sequence.
C10_OrderIndependent ==
    (pc = "done" /\ mode = "permuted") => (hull = ref)

\* The points, two of them on one ray from the anchor and one of them
\* supplied twice, were supplied in another order and the call has returned.
C10_Witness ==
    /\ pc = "done"
    /\ mode = "permuted"
    /\ Len(hull) >= 3
    /\ hull = ref
    /\ Cardinality(PointsOf(points)) < Len(points)
    /\ \E i, j \in 1..Len(points) :
          /\ points[i] # points[j]
          /\ points[i] # hull[1]
          /\ points[j] # hull[1]
          /\ cross_product(hull[1], points[i], points[j]) = 0

====
